---- MODULE Spec2Model ----
(***************************************************************************)
(* Model of web_monitor.py: the feed consumers (binance_funding_stream,    *)
(* binance_liquidation_stream, binance_trade_stream), the shared history   *)
(* containers, the subscriber registry connected_clients, the publish      *)
(* broadcast_to_clients and the subscriber session websocket_endpoint.     *)
(*                                                                         *)
(* All coroutines run on one asyncio event loop: code between two awaits   *)
(* is atomic, and every await is a point where other tasks may run.  Each  *)
(* action below is one such atomic stretch.  A send is delivered, or       *)
(* fails, at the send_text call; the transport keeps the order of calls.   *)
(*                                                                         *)
(* Numbers: prices, quantities and notionals are integers (USD); a funding *)
(* rate is an integer count of 1/Scale, so that r * 100 * 3 * 365 can hit  *)
(* the class boundaries exactly.  A formatted amount is kept as its suffix *)
(* and digits, a formatted time as its hours, minutes and seconds.  A       *)
(* symbol name is a sequence of one-character strings, so that upper(),    *)
(* replace() and slicing act on it as they do in the code.                 *)
(***************************************************************************)
EXTENDS Integers, Sequences, FiniteSets, TLC

\* ---------------------------------------------------------------- bounds
\* Feed messages consumed in all, under Spec (the hub's concurrency).
MaxMsgs == 2
\* Feed messages consumed in all, under SpecFeed (thresholds).
MaxFeedMsgs == 2
\* Feed messages consumed per stream, under SpecBuf (buffer capacities).
MaxBufMsgs == 32

\* Symbols whose consumers receive messages under SpecRates, SpecFunding and
\* SpecTrade: the first MaxSymbols entries of `symbols`.  All six symbols have
\* their entry of funding_data and their two consumer tasks in every state.
MaxSymbols == 2

btcusdt == <<"b", "t", "c", "u", "s", "d", "t">>
ethusdt == <<"e", "t", "h", "u", "s", "d", "t">>
solusdt == <<"s", "o", "l", "u", "s", "d", "t">>
bnbusdt == <<"b", "n", "b", "u", "s", "d", "t">>
dogeusdt == <<"d", "o", "g", "e", "u", "s", "d", "t">>
wifusdt == <<"w", "i", "f", "u", "s", "d", "t">>

\* symbols = ['btcusdt', 'ethusdt', 'solusdt', 'bnbusdt', 'dogeusdt', 'wifusdt']
symbols == <<btcusdt, ethusdt, solusdt, bnbusdt, dogeusdt, wifusdt>>

Symbols == {symbols[i] : i \in 1..Len(symbols)}

Tracked == {symbols[i] : i \in 1..MaxSymbols}

\* binance_liquidation_stream takes no symbol: it reads the all-market stream.
NoSymbol == 0

\* The position of a symbol in `symbols`.
IndexOf(sym) == CHOOSE i \in 1..Len(symbols) : symbols[i] = sym

\* A consumer task is named by its stream and the position of its symbol in
\* `symbols`, the order in which startup_event creates the tasks.
Task(kind, sym) == <<kind, IndexOf(sym)>>

LiquidationTask == <<"liquidation", NoSymbol>>

\* The subscriber handles (WebSocket objects) that may connect.
Clients == {"c1", "c2"}

\* ------------------------------------------------------ program constants
LiquidationsMaxLen == 25
TradesMaxLen == 30
WhalesMaxLen == 15

\* Denominator of the fixed-point funding rates of the model.
Scale == 20 * 3 * 365

None == [none |-> TRUE]

\* The consumer tasks startup_event creates.
Tasks ==
    {Task("funding", s) : s \in Symbols} \cup {LiquidationTask}
        \cup {Task("trade", s) : s \in Symbols}

VARIABLES
    funding_data,        \* [Symbols -> snapshot or None]
    recent_liquidations, \* deque(maxlen=25), head first
    recent_trades,       \* deque(maxlen=30), head first
    whale_alerts,        \* deque(maxlen=15), head first
    connected_clients,   \* the registry: a list of handles
    task,                \* [Tasks -> the consumer's position and publish locals]
    session,             \* [Clients -> position of websocket_endpoint]
    transport,           \* [Clients -> "ok" | "closed"]
    delivered,           \* [Clients -> the events the peer was sent, in order]
    npub,                \* [Tasks -> [kind -> events handed to broadcast_to_clients]]
    emitted,             \* the events handed over by the latest step that published
    regAt,               \* [Clients -> events published before the handle was appended]
    nmut,                \* [kind -> number of mutations of that container]
    nmsg                 \* [Tasks -> messages received on the stream]

vars ==
    <<funding_data, recent_liquidations, recent_trades, whale_alerts,
      connected_clients, task, session, transport, delivered, npub, emitted,
      regAt, nmut, nmsg>>

\* ------------------------------------------------------------ pure helpers
Range(s) == {s[k] : k \in 1..Len(s)}

\* Mutant of AppendLeft: the full test is off by one, so a buffer grows to
\* maxlen + 1 entries before anything is discarded.
AppendLeftLate(d, x, maxlen) ==
    IF Len(d) > maxlen
    THEN <<x>> \o SubSeq(d, 1, maxlen)
    ELSE <<x>> \o d

\* collections.deque.appendleft on a deque with maxlen: the new entry becomes
\* the head and, when the deque is full, the entry at the tail is discarded.
AppendLeft(d, x, maxlen) ==
    IF Len(d) >= maxlen
    THEN <<x>> \o SubSeq(d, 1, maxlen - 1)
    ELSE <<x>> \o d

\* list.remove(x): drops the first occurrence of x (x is known present).
RemoveFirst(l, x) ==
    LET k == CHOOSE j \in 1..Len(l) : l[j] = x /\ \A h \in 1..(j - 1) : l[h] # x
    IN  SubSeq(l, 1, k - 1) \o SubSeq(l, k + 1, Len(l))

\* The loop `for client in disconnected: connected_clients.remove(client)`.
\* list.remove raises ValueError when the value is absent, which ends the loop
\* with the removals made so far.
RECURSIVE RemoveDisconnected(_, _)
RemoveDisconnected(clients, disconnected) ==
    IF disconnected = <<>> THEN [clients |-> clients, raised |-> FALSE]
    ELSE IF Head(disconnected) \notin Range(clients)
         THEN [clients |-> clients, raised |-> TRUE]
         ELSE RemoveDisconnected(RemoveFirst(clients, Head(disconnected)),
                                 Tail(disconnected))

\* Mutant of get_funding_style_class: the top boundary is inclusive.
get_funding_style_class_ge(yearly_rate) ==
    IF yearly_rate >= 50 * Scale THEN "funding-extreme"
    ELSE IF yearly_rate > 30 * Scale THEN "funding-high"
    ELSE IF yearly_rate > 5 * Scale THEN "funding-positive"
    ELSE IF yearly_rate < (-10) * Scale THEN "funding-negative"
    ELSE "funding-normal"

get_funding_style_class(yearly_rate) ==
    IF yearly_rate > 50 * Scale THEN "funding-extreme"
    ELSE IF yearly_rate > 30 * Scale THEN "funding-high"
    ELSE IF yearly_rate > 5 * Scale THEN "funding-positive"
    ELSE IF yearly_rate < (-10) * Scale THEN "funding-negative"
    ELSE "funding-normal"

LowerLetters ==
    <<"a", "b", "c", "d", "e", "f", "g", "h", "i", "j", "k", "l", "m",
      "n", "o", "p", "q", "r", "s", "t", "u", "v", "w", "x", "y", "z">>

UpperLetters ==
    <<"A", "B", "C", "D", "E", "F", "G", "H", "I", "J", "K", "L", "M",
      "N", "O", "P", "Q", "R", "S", "T", "U", "V", "W", "X", "Y", "Z">>

\* The letter at the same position of the other alphabet.
UpperOf ==
    [c \in Range(LowerLetters) |->
        UpperLetters[CHOOSE i \in DOMAIN LowerLetters : LowerLetters[i] = c]]

LowerOf ==
    [c \in Range(UpperLetters) |->
        LowerLetters[CHOOSE i \in DOMAIN UpperLetters : UpperLetters[i] = c]]

\* A character that is not a letter of the source alphabet stays as it is.
MapChar(c, map) == IF c \in DOMAIN map THEN map[c] ELSE c

\* str.upper() and str.lower().
RECURSIVE upper(_)
upper(s) ==
    IF s = <<>> THEN <<>>
    ELSE <<MapChar(Head(s), UpperOf)>> \o upper(Tail(s))

RECURSIVE lower(_)
lower(s) ==
    IF s = <<>> THEN <<>>
    ELSE <<MapChar(Head(s), LowerOf)>> \o lower(Tail(s))

\* str.replace(old, new): every occurrence of old, found from the left
\* without overlap, becomes new (old is not empty).
RECURSIVE replace(_, _, _)
replace(s, old, new) ==
    IF Len(s) < Len(old) THEN s
    ELSE IF SubSeq(s, 1, Len(old)) = old
         THEN new \o replace(SubSeq(s, Len(old) + 1, Len(s)), old, new)
         ELSE <<Head(s)>> \o replace(Tail(s), old, new)

\* The slice s[:n].
Prefix(s, n) == SubSeq(s, 1, IF Len(s) < n THEN Len(s) ELSE n)

USDT == <<"U", "S", "D", "T">>

\* data['s'].replace('USDT', '').upper()
funding_symbol_display(s) == upper(replace(s, USDT, <<>>))

\* order_data['s'].replace('USDT', ''), then symbol[:4]
liquidation_symbol(s) == Prefix(replace(s, USDT, <<>>), 4)

\* symbol.upper().replace('USDT', ''), then display_symbol[:4]
trade_symbol(symbol) == Prefix(replace(upper(symbol), USDT, <<>>), 4)

RECURSIVE BitLength(_)
BitLength(n) == IF n = 0 THEN 0 ELSE 1 + BitLength(n \div 2)

\* Binary long division of r / d (r < d): the remainder left after `need` more
\* significant bits of the quotient, and the last of those bits.  The
\* significand starts at the first 1 bit.
RECURSIVE MantissaTail(_, _, _, _, _)
MantissaTail(r, d, need, last, started) ==
    IF need = 0 THEN [rem |-> r, last |-> last]
    ELSE LET b == (2 * r) \div d
             r2 == (2 * r) % d
         IN  IF started \/ b = 1
             THEN MantissaTail(r2, d, need - 1, b, TRUE)
             ELSE MantissaTail(r2, d, need, last, FALSE)

\* The float n / d against the exact quotient: -1 when the division, rounded
\* to the 53-bit significand of a double (ties to even), gives a float below
\* the quotient, 1 when above, 0 when the quotient is a double.
FloatSide(n, d) ==
    LET whole == n \div d
        r == n % d
        tail == MantissaTail(r, d, 53 - BitLength(whole), whole % 2, whole > 0)
    IN  IF r = 0 \/ tail.rem = 0 THEN 0
        ELSE IF 2 * tail.rem < d THEN -1
        ELSE IF 2 * tail.rem > d THEN 1
        ELSE IF tail.last = 0 THEN -1 ELSE 1

\* The digits of f"{n / d:.Pf}", as a count of the last decimal shown, with
\* unit = d / 10^P: the float n / d is rounded to the nearest such count.
\* When the exact quotient is halfway between two counts, the float decides:
\* it lies below or above the halfway point, or on it (then to the even).
FloatDigits(n, d, unit) ==
    LET q == n \div unit
        rem == n % unit
    IN  IF 2 * rem < unit THEN q
        ELSE IF 2 * rem > unit THEN q + 1
        ELSE CASE FloatSide(n, d) = -1 -> q
               [] FloatSide(n, d) = 1 -> q + 1
               [] OTHER -> q + (q % 2)

\* format_usd: "$x.xxM", "$x.xK" or "$x", as the suffix and the digits shown
\* (hundredths of a million, tenths of a thousand, units).
format_usd(amount) ==
    IF amount >= 1000000
    THEN [suffix |-> "M", digits |-> FloatDigits(amount, 1000000, 10000)]
    ELSE IF amount >= 1000
    THEN [suffix |-> "K", digits |-> FloatDigits(amount, 1000, 100)]
    ELSE [suffix |-> "", digits |-> amount]

\* US/Eastern is five hours behind UTC at every timestamp of the model (all
\* lie in January 1970, standard time).
EasternOffset == -5 * 3600

\* datetime.fromtimestamp(T / 1000, est).strftime('%H:%M:%S'): the Eastern
\* wall-clock time of a millisecond timestamp.
TimeOfDay(T) ==
    LET sec == ((T \div 1000) + EasternOffset) % 86400
    IN  [H |-> sec \div 3600, M |-> (sec % 3600) \div 60, S |-> sec % 60]

\* ------------------------------------------------------------------ state
Kinds == {"funding_update", "liquidation_update", "trade_update", "whale_alert_update"}

\* A consumer that is not inside broadcast_to_clients.
Idle(pc) ==
    [pc |-> pc, kind |-> "", data |-> <<>>, i |-> 0, disconnected |-> <<>>,
     whale |-> FALSE, atStart |-> {}, got |-> {}, seq |-> 0]

Init ==
    /\ funding_data = [s \in Symbols |-> None]
    /\ recent_liquidations = <<>>
    /\ recent_trades = <<>>
    /\ whale_alerts = <<>>
    /\ connected_clients = <<>>
    /\ task = [t \in Tasks |-> Idle("connect")]
    /\ session = [c \in Clients |-> "accepting"]
    /\ transport = [c \in Clients |-> "ok"]
    /\ delivered = [c \in Clients |-> <<>>]
    /\ npub = [t \in Tasks |-> [k \in Kinds |-> 0]]
    /\ emitted = <<>>
    /\ regAt = [c \in Clients |-> 0]
    /\ nmut = [k \in Kinds |-> 0]
    /\ nmsg = [t \in Tasks |-> 0]

\* ------------------------------------------------------ broadcast_to_clients
\* json.dumps(data) at a send: the dict holds a reference to funding_data (so
\* the map is read at every send) and a copy, list(...), of a buffer.
\* The funding object as json.dumps writes it: the dict's items in insertion
\* order, which is the order of `symbols`.
FundingPayload(fd) ==
    [i \in 1..Len(symbols) |-> [key |-> symbols[i], value |-> fd[symbols[i]]]]

Serialized(L, fd) ==
    [type |-> L.kind,
     data |-> IF L.kind = "funding_update" THEN FundingPayload(fd) ELSE L.data,
     seq |-> L.seq]

\* One iteration of `for client in connected_clients`: the list iterator
\* yields clients[i + 1]; send_text succeeds on a working transport and raises
\* on a closed one, which appends the client to `disconnected`.  On a
\* transport whose peer has stopped reading the awaited send_text does not
\* return: the coroutine stays at that await.
SendNextL(L, clients) ==
    LET c == clients[L.i + 1]
    IN  CASE transport[c] = "ok" ->
               [L EXCEPT !.i = @ + 1, !.got = @ \cup {c}]
          [] transport[c] = "closed" ->
               [L EXCEPT !.i = @ + 1, !.disconnected = Append(@, c)]
          [] transport[c] = "stalled" ->
               [L EXCEPT !.pc = "blocked"]

SendNextD(L, clients, fd, dl) ==
    LET c == clients[L.i + 1]
    IN  IF transport[c] = "ok"
        THEN [dl EXCEPT ![c] = Append(@, Serialized(L, fd))]
        ELSE dl

Locals(kind, data, whale, clients, seq) ==
    [pc |-> "send", kind |-> kind, data |-> data, i |-> 0, disconnected |-> <<>>,
     whale |-> whale, atStart |-> Range(clients), got |-> {}, seq |-> seq]

Event(t, kind, data) == [type |-> kind, data |-> data, by |-> t]

\* The number of events handed to broadcast_to_clients so far.
RECURSIVE Published(_)
Published(S) ==
    IF S = {} THEN 0
    ELSE LET t == CHOOSE x \in S : TRUE
         IN  npub[t]["funding_update"] + npub[t]["liquidation_update"]
               + npub[t]["trade_update"] + npub[t]["whale_alert_update"]
               + Published(S \ {t})

\* A call of broadcast_to_clients by consumer t, up to its first await: with
\* no subscriber it returns at once, otherwise it makes the first send.
\* `contents` is what the event's data shows at the call, fd the funding map.
Publish(t, kind, data, contents, whale, fd) ==
    LET L == Locals(kind, data, whale, connected_clients, Published(Tasks) + 1)
    IN  /\ npub' = [npub EXCEPT ![t][kind] = @ + 1]
        /\ emitted' = <<Event(t, kind, contents)>>
        /\ IF connected_clients = <<>>
           THEN /\ task' = [task EXCEPT ![t] = Idle("recv")]
                /\ delivered' = delivered
           ELSE /\ task' = [task EXCEPT ![t] = SendNextL(L, connected_clients)]
                /\ delivered' = SendNextD(L, connected_clients, fd, delivered)
        /\ UNCHANGED connected_clients

\* The send loop resumes after an await and makes its next send.
PublishSend(t) ==
    /\ task[t].pc = "send"
    /\ task[t].i < Len(connected_clients)
    /\ task' = [task EXCEPT ![t] = SendNextL(@, connected_clients)]
    /\ delivered' = SendNextD(task[t], connected_clients, funding_data, delivered)
    /\ UNCHANGED <<funding_data, recent_liquidations, recent_trades, whale_alerts,
                   connected_clients, session, transport, npub, emitted, regAt, nmut,
                   nmsg>>

\* The send loop resumes and finds the iterator exhausted: the removal loop
\* runs.  A ValueError leaves broadcast_to_clients and is caught by the
\* consumer's `except Exception`, whose `break` leaves the connection.  A
\* whale publish that returns is followed by the call for trade_update.
PublishEnd(t) ==
    LET L == task[t]
        r == RemoveDisconnected(connected_clients, L.disconnected)
        next == Locals("trade_update", recent_trades, FALSE, r.clients,
                       Published(Tasks) + 1)
    IN  /\ L.pc = "send"
        /\ L.i >= Len(connected_clients)
        /\ connected_clients' = r.clients
        /\ IF r.raised
           THEN /\ task' = [task EXCEPT ![t] = Idle("connect")]
                /\ UNCHANGED <<delivered, npub, emitted>>
           ELSE IF L.whale
           THEN /\ npub' = [npub EXCEPT ![t]["trade_update"] = @ + 1]
                /\ emitted' = <<Event(t, "trade_update", recent_trades)>>
                /\ IF r.clients = <<>>
                   THEN /\ task' = [task EXCEPT ![t] = Idle("recv")]
                        /\ delivered' = delivered
                   ELSE /\ task' = [task EXCEPT ![t] = SendNextL(next, r.clients)]
                        /\ delivered' = SendNextD(next, r.clients, funding_data, delivered)
           ELSE /\ task' = [task EXCEPT ![t] = Idle("recv")]
                /\ UNCHANGED <<delivered, npub, emitted>>
        /\ UNCHANGED <<funding_data, recent_liquidations, recent_trades, whale_alerts,
                       session, transport, regAt, nmut, nmsg>>

\* ------------------------------------------------------------ feed consumers
RECURSIVE Total(_, _)
Total(f, S) ==
    IF S = {} THEN 0
    ELSE LET x == CHOOSE y \in S : TRUE IN f[x] + Total(f, S \ {x})

\* The timestamp 'T' of the next message of stream t: one second per message.
NextT(t) == 1000 * (nmsg[t] + 1)

Received(t) == nmsg' = [nmsg EXCEPT ![t] = @ + 1]

\* Mutant of Receiving: the consumer takes its next message while its publish
\* is still in the send loop (the publish is not awaited).
ReceivingOrSending(t) == task[t].pc \in {"recv", "send"}

\* The consumer is at `await websocket.recv()`: its last publish has returned.
Receiving(t) == task[t].pc = "recv"

\* binance_funding_stream(symbol), one message {'s': ..., 'r': ...}.
\* Mutant of funding_key: the entry is chosen by the symbol the message names.
funding_key_of_message(symbol, msg) == lower(msg.s)

\* The key written by `funding_data[symbol] = {...}`: the consumer's own
\* symbol, the argument of binance_funding_stream.
funding_key(symbol, msg) == symbol

FundingMessage(t, msg) ==
    LET symbol == symbols[t[2]]
        symbol_display == funding_symbol_display(msg.s)
        funding_rate == msg.r * 100
        yearly_funding_rate == funding_rate * 3 * 365
        fd == [funding_data EXCEPT ![funding_key(symbol, msg)] =
                  [symbol_display |-> symbol_display,
                   funding_rate |-> funding_rate,
                   yearly_rate |-> yearly_funding_rate,
                   style_class |-> get_funding_style_class(yearly_funding_rate)]]
    IN  /\ t[1] = "funding"
        /\ Receiving(t)
        /\ funding_data' = fd
        /\ nmut' = [nmut EXCEPT !["funding_update"] = @ + 1]
        /\ Publish(t, "funding_update", <<>>, FundingPayload(fd), FALSE, fd)
        /\ Received(t)
        /\ UNCHANGED <<recent_liquidations, recent_trades, whale_alerts, session,
                       transport, regAt>>

\* The filters `if usd_size >= 5000`, `if usd_size >= 15000` and
\* `if usd_size >= 100000`.
keeps_liquidation(usd_size) == usd_size >= 5000

\* Mutant of keeps_trade: the boundary is exclusive.
keeps_trade_strict(usd_size) == usd_size > 15000

keeps_trade(usd_size) == usd_size >= 15000

is_whale(usd_size) == usd_size >= 100000

\* binance_liquidation_stream, one message {'o': {'s', 'S', 'T', 'z', 'p'}}.
LiquidationMessage(t, msg) ==
    LET symbol == liquidation_symbol(msg.s)
        side == msg.S
        usd_size == msg.z * msg.p
        liquidation ==
            [symbol |-> symbol,
             side |-> side,
             side_text |-> IF side = "SELL" THEN "LONG LIQ" ELSE "SHORT LIQ",
             usd_size |-> format_usd(usd_size),
             time |-> TimeOfDay(msg.T),
             color_class |-> IF side = "SELL" THEN "liquidation-long"
                             ELSE "liquidation-short"]
        liqs == AppendLeft(recent_liquidations, liquidation, LiquidationsMaxLen)
    IN  /\ t[1] = "liquidation"
        /\ Receiving(t)
        /\ Received(t)
        /\ UNCHANGED <<funding_data, recent_trades, whale_alerts, session, transport,
                       regAt>>
        /\ IF keeps_liquidation(usd_size)
           THEN /\ recent_liquidations' = liqs
                /\ nmut' = [nmut EXCEPT !["liquidation_update"] = @ + 1]
                /\ Publish(t, "liquidation_update", liqs, liqs, FALSE, funding_data)
           ELSE UNCHANGED <<recent_liquidations, nmut, task, delivered, npub, emitted,
                            connected_clients>>

whale_class(usd_size) ==
    IF usd_size >= 1000000 THEN "whale-mega"
    ELSE IF usd_size >= 500000 THEN "whale-huge"
    ELSE "whale-big"

size_indicator(usd_size) ==
    IF usd_size >= 1000000 THEN "MEGA"
    ELSE IF usd_size >= 500000 THEN "HUGE"
    ELSE "BIG"

\* binance_trade_stream(symbol), one message {'p', 'q', 'T', 'm'}.
TradeMessage(t, msg) ==
    LET symbol == symbols[t[2]]
        price == msg.p
        usd_size == price * msg.q
        trade_type == IF msg.m THEN "SELL" ELSE "BUY"
        trade ==
            [symbol |-> trade_symbol(symbol),
             type |-> trade_type,
             usd_size |-> format_usd(usd_size),
             price |-> price,
             time |-> TimeOfDay(msg.T),
             color_class |-> IF trade_type = "BUY" THEN "trade-buy" ELSE "trade-sell"]
        whale_alert ==
            [symbol |-> trade.symbol, type |-> trade.type, usd_size |-> trade.usd_size,
             price |-> trade.price, time |-> trade.time,
             color_class |-> trade.color_class,
             usd_value |-> usd_size,
             whale_class |-> whale_class(usd_size),
             size_indicator |-> size_indicator(usd_size)]
        trades == AppendLeft(recent_trades, trade, TradesMaxLen)
        whales == AppendLeft(whale_alerts, whale_alert, WhalesMaxLen)
    IN  /\ t[1] = "trade"
        /\ Receiving(t)
        /\ Received(t)
        /\ UNCHANGED <<funding_data, recent_liquidations, session, transport, regAt>>
        /\ IF keeps_trade(usd_size)
           THEN /\ recent_trades' = trades
                /\ IF is_whale(usd_size)
                   THEN /\ whale_alerts' = whales
                        /\ nmut' = [nmut EXCEPT !["trade_update"] = @ + 1,
                                                !["whale_alert_update"] = @ + 1]
                        /\ IF connected_clients = <<>>
                           THEN \* both calls return without an await
                                /\ npub' = [npub EXCEPT
                                               ![t]["whale_alert_update"] = @ + 1,
                                               ![t]["trade_update"] = @ + 1]
                                /\ emitted' =
                                      <<Event(t, "whale_alert_update", whales),
                                        Event(t, "trade_update", trades)>>
                                /\ UNCHANGED <<task, delivered, connected_clients>>
                           ELSE Publish(t, "whale_alert_update", whales, whales, TRUE,
                                        funding_data)
                   ELSE /\ whale_alerts' = whale_alerts
                        /\ nmut' = [nmut EXCEPT !["trade_update"] = @ + 1]
                        /\ Publish(t, "trade_update", trades, trades, FALSE,
                                   funding_data)
           ELSE UNCHANGED <<recent_trades, whale_alerts, nmut, task, delivered,
                            npub, emitted, connected_clients>>

\* `async with connect(websocket_url)`: the consumer's first step, and its
\* step after the `break` has left the receive loop and closed the
\* connection (with no sleep).  connect() returns a connection (opened) or
\* raises; the outer handler then sleeps 5 seconds.
Connect(t, opened) ==
    /\ task[t].pc = "connect"
    /\ task' = [task EXCEPT ![t] = Idle(IF opened THEN "recv" ELSE "sleep")]
    /\ UNCHANGED <<funding_data, recent_liquidations, recent_trades, whale_alerts,
                   connected_clients, session, transport, delivered, npub, emitted,
                   regAt, nmut, nmsg>>

\* Mutant of Wake: the consumer gives up after a failed open.
WakeGiveUp(t) ==
    /\ task[t].pc = "sleep"
    /\ task' = [task EXCEPT ![t] = Idle("stopped")]
    /\ UNCHANGED <<funding_data, recent_liquidations, recent_trades, whale_alerts,
                   connected_clients, session, transport, delivered, npub, emitted,
                   regAt, nmut, nmsg>>

\* asyncio.sleep(5) returns and the outer loop calls connect() again.
Wake(t) ==
    /\ task[t].pc = "sleep"
    /\ task' = [task EXCEPT ![t] = Idle("connect")]
    /\ UNCHANGED <<funding_data, recent_liquidations, recent_trades, whale_alerts,
                   connected_clients, session, transport, delivered, npub, emitted,
                   regAt, nmut, nmsg>>

\* The exceptions json.loads raises on a message it cannot load:
\* json.JSONDecodeError on text that is not JSON, ValueError on an integer
\* literal longer than the conversion limit, RecursionError on nesting that
\* is too deep, UnicodeDecodeError on a binary frame that is not UTF-8.
LoadsErrors == {"JSONDecodeError", "ValueError", "RecursionError", "UnicodeDecodeError"}

\* `except json.JSONDecodeError: continue`: the clause exists in
\* binance_funding_stream only, and it catches that class only.
Continues(t, err) == t[1] = "funding" /\ err = "JSONDecodeError"

\* A message on which json.loads raises err.  The funding consumer goes on to
\* its next message after a JSONDecodeError; every other case is caught by
\* `except Exception`, which logs and breaks out of the connection.
MalformedMessage(t, err) ==
    /\ Receiving(t)
    /\ Received(t)
    /\ task' = [task EXCEPT ![t] = IF Continues(t, err) THEN Idle("recv")
                                   ELSE Idle("connect")]
    /\ UNCHANGED <<funding_data, recent_liquidations, recent_trades, whale_alerts,
                   connected_clients, session, transport, delivered, npub, emitted,
                   regAt, nmut>>

\* A message that parses but whose processing raises (a missing key, a field
\* float() rejects): the error comes before any mutation, `except Exception`
\* logs it and `break` leaves the receive loop and the connection; the outer
\* loop calls connect() again at once, the sleep being in the outer handler.
BadMessage(t) ==
    /\ Receiving(t)
    /\ Received(t)
    /\ task' = [task EXCEPT ![t] = Idle("connect")]
    /\ UNCHANGED <<funding_data, recent_liquidations, recent_trades, whale_alerts,
                   connected_clients, session, transport, delivered, npub, emitted,
                   regAt, nmut>>

\* websocket.recv() raises (the upstream closed the connection): the same
\* `except Exception` and `break`.
RecvError(t) ==
    /\ Receiving(t)
    /\ task' = [task EXCEPT ![t] = Idle("connect")]
    /\ UNCHANGED <<funding_data, recent_liquidations, recent_trades, whale_alerts,
                   connected_clients, session, transport, delivered, npub, emitted,
                   regAt, nmut, nmsg>>

\* --------------------------------------------------------- websocket_endpoint
Snapshot ==
    [type |-> "initial_data",
     funding_data |-> funding_data,
     liquidations |-> recent_liquidations,
     trades |-> recent_trades,
     whale_alerts |-> whale_alerts,
     seq |-> 0]

\* After accept(): the handle is appended and the snapshot is serialized and
\* sent.  A send that raises leaves websocket_endpoint (the send is outside
\* the try), with the handle still in the registry.
\* Mutant of Register: the handle is appended and the snapshot send is left
\* for later.
RegisterDeferred(c) ==
    /\ session[c] = "accepting"
    /\ connected_clients' = Append(connected_clients, c)
    /\ regAt' = [regAt EXCEPT ![c] = Published(Tasks)]
    /\ delivered' = delivered
    /\ session' = [session EXCEPT ![c] = IF transport[c] = "ok" THEN "open" ELSE "crashed"]
    /\ UNCHANGED <<funding_data, recent_liquidations, recent_trades, whale_alerts,
                   task, transport, npub, emitted, nmut, nmsg>>

Register(c) ==
    /\ session[c] = "accepting"
    /\ connected_clients' = Append(connected_clients, c)
    /\ regAt' = [regAt EXCEPT ![c] = Published(Tasks)]
    /\ IF transport[c] = "ok"
       THEN /\ delivered' = [delivered EXCEPT ![c] = Append(@, Snapshot)]
            /\ session' = [session EXCEPT ![c] = "open"]
       ELSE /\ delivered' = delivered
            /\ session' = [session EXCEPT ![c] = "crashed"]
    /\ UNCHANGED <<funding_data, recent_liquidations, recent_trades, whale_alerts,
                   task, transport, npub, emitted, nmut, nmsg>>

\* The peer goes away: sends to the handle raise from now on.
PeerClose(c) ==
    /\ session[c] \in {"accepting", "open"}
    /\ transport[c] = "ok"
    /\ transport' = [transport EXCEPT ![c] = "closed"]
    /\ UNCHANGED <<funding_data, recent_liquidations, recent_trades, whale_alerts,
                   connected_clients, task, session, delivered, npub, emitted, regAt,
                   nmut, nmsg>>

\* receive_text() raises WebSocketDisconnect and the handler calls
\* connected_clients.remove(websocket), which raises ValueError when a publish
\* has removed the handle already.
Disconnect(c) ==
    /\ session[c] = "open"
    /\ transport[c] = "closed"
    /\ IF c \in Range(connected_clients)
       THEN /\ connected_clients' = RemoveFirst(connected_clients, c)
            /\ session' = [session EXCEPT ![c] = "closed"]
       ELSE /\ connected_clients' = connected_clients
            /\ session' = [session EXCEPT ![c] = "crashed"]
    /\ UNCHANGED <<funding_data, recent_liquidations, recent_trades, whale_alerts,
                   task, transport, delivered, npub, emitted, regAt, nmut, nmsg>>

\* The peer of an open session stops reading: from now on a send_text to it
\* is awaited without end.
Stall(c) ==
    /\ session[c] = "open"
    /\ transport[c] = "ok"
    /\ transport' = [transport EXCEPT ![c] = "stalled"]
    /\ UNCHANGED <<funding_data, recent_liquidations, recent_trades, whale_alerts,
                   connected_clients, task, session, delivered, npub, emitted, regAt,
                   nmut, nmsg>>

\* ------------------------------------------------------------ specifications
\* The symbol names the feed sends: upper case.
MsgSymbols == {upper(sym) : sym \in Tracked}

BTCUSDT == upper(btcusdt)

\* A name of the all-market liquidation stream that is longer than four
\* characters once 'USDT' is removed.
PEPEUSDT == <<"1", "0", "0", "0", "P", "E", "P", "E", "U", "S", "D", "T">>

\* Spec: the hub under concurrent consumers and sessions, few messages: one
\* consumer of each kind and both subscribers.
HubTasks == {Task("funding", btcusdt), LiquidationTask, Task("trade", btcusdt)}

HubFunding == {[s |-> BTCUSDT, r |-> 3]}
HubLiquidations(t) == {[s |-> BTCUSDT, S |-> "SELL", T |-> NextT(t), z |-> 1, p |-> 5000]}
HubTrades(t) ==
    {[p |-> 50000, q |-> 3, T |-> NextT(t), m |-> FALSE]}

HubFundingMessage ==
    Total(nmsg, Tasks) < MaxMsgs /\ \E t \in HubTasks :
        \E msg \in HubFunding : FundingMessage(t, msg)

HubLiquidationMessage ==
    Total(nmsg, Tasks) < MaxMsgs /\ \E t \in HubTasks :
        \E msg \in HubLiquidations(t) : LiquidationMessage(t, msg)

HubTradeMessage ==
    Total(nmsg, Tasks) < MaxMsgs /\ \E t \in HubTasks :
        \E msg \in HubTrades(t) : TradeMessage(t, msg)

Next ==
    \/ HubFundingMessage
    \/ HubLiquidationMessage
    \/ HubTradeMessage
    \/ \E t \in HubTasks : PublishSend(t)
    \/ \E t \in HubTasks : PublishEnd(t)
    \/ \E t \in HubTasks : \E opened \in BOOLEAN : Connect(t, opened)
    \/ \E t \in HubTasks : Wake(t)
    \/ \E c \in Clients : Register(c)
    \/ \E c \in Clients : PeerClose(c)
    \/ \E c \in Clients : Disconnect(c)

Spec == Init /\ [][Next]_vars

\* SpecFeed: the liquidation and trade filters, on messages at and around
\* every threshold, with no subscriber connected; one funding consumer fills
\* its entry of the funding map.
FeedNotionals ==
    {4999, 5000, 14999, 15000, 99999, 100000, 499999, 500000, 999999, 1000000}
FeedLiquidations(t) ==
    {[s |-> BTCUSDT, S |-> S, T |-> NextT(t), z |-> 1, p |-> p] :
        S \in {"SELL", "BUY"}, p \in {4999, 5000, 14999}}
        \cup {[s |-> PEPEUSDT, S |-> "SELL", T |-> NextT(t), z |-> 2, p |-> 2500]}
FeedTrades(t) ==
    {[p |-> p, q |-> 1, T |-> NextT(t), m |-> FALSE] : p \in FeedNotionals}
        \cup {[p |-> p, q |-> 3, T |-> NextT(t), m |-> TRUE] : p \in {4999, 5000, 50000}}

FeedTasks == {Task("funding", btcusdt), LiquidationTask, Task("trade", btcusdt)}

FeedFundingMessage ==
    Total(nmsg, Tasks) < MaxFeedMsgs /\ \E t \in FeedTasks : \E msg \in HubFunding : FundingMessage(t, msg)

FeedLiquidationMessage ==
    Total(nmsg, Tasks) < MaxFeedMsgs /\ \E t \in FeedTasks : \E msg \in FeedLiquidations(t) : LiquidationMessage(t, msg)

FeedTradeMessage ==
    Total(nmsg, Tasks) < MaxFeedMsgs /\ \E t \in FeedTasks : \E msg \in FeedTrades(t) : TradeMessage(t, msg)

NextFeed ==
    \/ \E t \in FeedTasks : \E opened \in BOOLEAN : Connect(t, opened)
    \/ \E t \in FeedTasks : Wake(t)
    \/ FeedFundingMessage
    \/ FeedLiquidationMessage
    \/ FeedTradeMessage

SpecFeed == Init /\ [][NextFeed]_vars

\* SpecRates: the funding consumers of the tracked symbols, on rates at and
\* around every class boundary and messages naming any tracked symbol, with no
\* subscriber connected; the liquidation consumer fills its buffer.
MaxRateMsgs == 2

FeedRates == {-3, -2, 0, 1, 2, 6, 8, 10, 12}

\* Every rate in a message that names BTC, and a message for every tracked
\* symbol.
RateFunding ==
    {[s |-> BTCUSDT, r |-> r] : r \in FeedRates}
        \cup {[s |-> s, r |-> 3] : s \in MsgSymbols}

RateTasks == {Task("funding", sym) : sym \in Tracked} \cup {LiquidationTask}

RateFundingMessage ==
    Total(nmsg, Tasks) < MaxRateMsgs /\ \E t \in RateTasks : \E msg \in RateFunding : FundingMessage(t, msg)

RateLiquidationMessage ==
    Total(nmsg, Tasks) < MaxRateMsgs /\ \E t \in RateTasks : \E msg \in HubLiquidations(t) : LiquidationMessage(t, msg)

NextRates ==
    \/ \E t \in RateTasks : \E opened \in BOOLEAN : Connect(t, opened)
    \/ \E t \in RateTasks : Wake(t)
    \/ RateFundingMessage
    \/ RateLiquidationMessage

SpecRates == Init /\ [][NextRates]_vars

\* SpecBuf: long runs of kept messages, past every buffer's capacity, with no
\* subscriber connected.  The liquidation consumer (the only writer of its
\* buffer) and the trade consumer of the first symbol receive up to MaxBufMsgs
\* messages each, in any order in which neither is more than MaxBufSkew
\* messages ahead of the other; the trade consumer of the second symbol writes
\* to the same trade and whale buffers, up to MaxBufOther messages, kept or
\* dropped, at any point of the run.
MaxBufOther == 1
MaxBufSkew == 1

BufLiquidation(t) == [s |-> BTCUSDT, S |-> "SELL", T |-> NextT(t), z |-> 1, p |-> 5000]

\* The n-th trade that is kept carries the price 50000 + n, whichever consumer
\* receives it: the price tells the insertions apart.  Each is a whale trade.
BufTrade(t) ==
    [p |-> 50000 + nmut["trade_update"] + 1, q |-> 3, T |-> NextT(t), m |-> FALSE]

\* A trade below the threshold of the trade buffer.
BufSmallTrade(t) == [p |-> 4999, q |-> 1, T |-> NextT(t), m |-> TRUE]

BufTradeTasks == {Task("trade", btcusdt), Task("trade", ethusdt)}

\* Consumer t may receive its next message.
BufReady(t) ==
    CASE t = LiquidationTask ->
           /\ nmsg[t] < MaxBufMsgs
           /\ nmsg[t] - nmsg[Task("trade", btcusdt)] < MaxBufSkew
      [] t = Task("trade", btcusdt) ->
           /\ nmsg[t] < MaxBufMsgs
           /\ nmsg[t] - nmsg[LiquidationTask] < MaxBufSkew
      [] OTHER -> nmsg[t] < MaxBufOther

BufLiquidationMessage ==
    LET t == LiquidationTask
    IN  BufReady(t) /\ LiquidationMessage(t, BufLiquidation(t))

BufTradeMessage ==
    \E t \in BufTradeTasks : BufReady(t) /\ TradeMessage(t, BufTrade(t))

BufSmallTradeMessage ==
    LET t == Task("trade", ethusdt)
    IN  BufReady(t) /\ TradeMessage(t, BufSmallTrade(t))

BufTasks == {LiquidationTask} \cup BufTradeTasks

NextBuf ==
    \/ \E t \in BufTasks : \E opened \in BOOLEAN : Connect(t, opened)
    \/ \E t \in BufTasks : Wake(t)
    \/ BufLiquidationMessage
    \/ BufTradeMessage
    \/ BufSmallTradeMessage

SpecBuf == Init /\ [][NextBuf]_vars

\* SpecConn: the consumers' connection life cycle (failed opens, failed
\* receives, malformed and unprocessable messages, a publish that raises),
\* with one subscriber: the send loop of a publish then makes its only send in
\* the handler's step and ends in PublishEnd, PublishSend being never enabled.
MaxConnMsgs == 2

\* One consumer of each kind.
ConnTasks == {Task("funding", btcusdt), LiquidationTask, Task("trade", btcusdt)}

ConnFundingMessage ==
    Total(nmsg, Tasks) < MaxConnMsgs /\ \E t \in ConnTasks :
        \E msg \in HubFunding : FundingMessage(t, msg)

ConnLiquidationMessage ==
    Total(nmsg, Tasks) < MaxConnMsgs /\ \E t \in ConnTasks :
        \E msg \in HubLiquidations(t) : LiquidationMessage(t, msg)

ConnTradeMessage ==
    Total(nmsg, Tasks) < MaxConnMsgs /\ \E t \in ConnTasks :
        \E msg \in HubTrades(t) : TradeMessage(t, msg)

ConnMalformedMessage ==
    /\ Total(nmsg, Tasks) < MaxConnMsgs
    /\ \E t \in ConnTasks : \E err \in LoadsErrors : MalformedMessage(t, err)

ConnBadMessage ==
    Total(nmsg, Tasks) < MaxConnMsgs /\ \E t \in ConnTasks : BadMessage(t)

NextConn ==
    \/ ConnFundingMessage
    \/ ConnLiquidationMessage
    \/ ConnTradeMessage
    \/ ConnMalformedMessage
    \/ ConnBadMessage
    \/ \E t \in ConnTasks : RecvError(t)
    \/ \E t \in ConnTasks : PublishEnd(t)
    \/ \E t \in ConnTasks : \E opened \in BOOLEAN : Connect(t, opened)
    \/ \E t \in ConnTasks : Wake(t)
    \/ Register("c1")
    \/ PeerClose("c1")
    \/ Disconnect("c1")

SpecConn == Init /\ [][NextConn]_vars

\* SpecLive: the connection life cycle of a funding and a trade consumer, as
\* under SpecConn, where asyncio.sleep(5) returns: a sleeping consumer is
\* always woken.
MaxLiveMsgs == 2

LiveTasks == {Task("funding", btcusdt), Task("trade", btcusdt)}

LiveFundingMessage ==
    Total(nmsg, Tasks) < MaxLiveMsgs /\ \E t \in LiveTasks :
        \E msg \in HubFunding : FundingMessage(t, msg)

LiveTradeMessage ==
    Total(nmsg, Tasks) < MaxLiveMsgs /\ \E t \in LiveTasks :
        \E msg \in HubTrades(t) : TradeMessage(t, msg)

LiveMalformedMessage ==
    /\ Total(nmsg, Tasks) < MaxLiveMsgs
    /\ \E t \in LiveTasks : \E err \in LoadsErrors : MalformedMessage(t, err)

LiveBadMessage ==
    Total(nmsg, Tasks) < MaxLiveMsgs /\ \E t \in LiveTasks : BadMessage(t)

NextLive ==
    \/ LiveFundingMessage
    \/ LiveTradeMessage
    \/ LiveMalformedMessage
    \/ LiveBadMessage
    \/ \E t \in LiveTasks : RecvError(t)
    \/ \E t \in LiveTasks : PublishEnd(t)
    \/ \E t \in LiveTasks : \E opened \in BOOLEAN : Connect(t, opened)
    \/ \E t \in LiveTasks : Wake(t)
    \/ Register("c1")
    \/ PeerClose("c1")
    \/ Disconnect("c1")

SpecLive == Init /\ [][NextLive]_vars /\ \A t \in LiveTasks : WF_vars(Wake(t))

\* SpecStall: two consumers publish to subscribers that may stop reading.
MaxStallMsgs == 2

StallTasks == {Task("funding", btcusdt), LiquidationTask}

StallFundingMessage ==
    Total(nmsg, Tasks) < MaxStallMsgs /\ \E t \in StallTasks :
        \E msg \in HubFunding : FundingMessage(t, msg)

StallLiquidationMessage ==
    Total(nmsg, Tasks) < MaxStallMsgs /\ \E t \in StallTasks :
        \E msg \in HubLiquidations(t) : LiquidationMessage(t, msg)

NextStall ==
    \/ \E t \in StallTasks : \E opened \in BOOLEAN : Connect(t, opened)
    \/ \E t \in StallTasks : Wake(t)
    \/ StallFundingMessage
    \/ StallLiquidationMessage
    \/ \E t \in StallTasks : PublishSend(t)
    \/ \E t \in StallTasks : PublishEnd(t)
    \/ \E c \in Clients : Register(c)
    \/ \E c \in Clients : Stall(c)

SpecStall == Init /\ [][NextStall]_vars

\* SpecPair: one funding and one trade consumer with both subscribers, which
\* register in either order; the peer of c1 may close, that of c2 stays.
MaxPairMsgs == 2

PairTasks == {Task("funding", btcusdt), Task("trade", btcusdt)}

PairFundingMessage ==
    Total(nmsg, Tasks) < MaxPairMsgs /\ \E t \in PairTasks :
        \E msg \in HubFunding : FundingMessage(t, msg)

PairTradeMessage ==
    Total(nmsg, Tasks) < MaxPairMsgs /\ \E t \in PairTasks :
        \E msg \in HubTrades(t) : TradeMessage(t, msg)

NextPair ==
    \/ PairFundingMessage
    \/ PairTradeMessage
    \/ \E t \in PairTasks : PublishSend(t)
    \/ \E t \in PairTasks : PublishEnd(t)
    \/ \E t \in PairTasks : \E opened \in BOOLEAN : Connect(t, opened)
    \/ \E t \in PairTasks : Wake(t)
    \/ \E c \in Clients : Register(c)
    \/ PeerClose("c1")
    \/ Disconnect("c1")

SpecPair == Init /\ [][NextPair]_vars

\* SpecFunding: the funding consumers of the tracked symbols with both
\* subscribers, no send failing.
MaxFundingMsgs == 2

FundingTasks == {Task("funding", sym) : sym \in Tracked}

FundingFeed == {[s |-> s, r |-> 3] : s \in MsgSymbols}

FundingFeedMessage ==
    Total(nmsg, Tasks) < MaxFundingMsgs /\ \E t \in FundingTasks :
        \E msg \in FundingFeed : FundingMessage(t, msg)

NextFunding ==
    \/ FundingFeedMessage
    \/ \E t \in FundingTasks : PublishSend(t)
    \/ \E t \in FundingTasks : PublishEnd(t)
    \/ \E t \in FundingTasks : \E opened \in BOOLEAN : Connect(t, opened)
    \/ \E t \in FundingTasks : Wake(t)
    \/ \E c \in Clients : Register(c)

SpecFunding == Init /\ [][NextFunding]_vars

\* SpecTrade: the trade consumers of the tracked symbols with both
\* subscribers, no send failing.
MaxTradeMsgs == 2

TradeFeedTasks == {Task("trade", sym) : sym \in Tracked}

TradeFeedMessage ==
    Total(nmsg, Tasks) < MaxTradeMsgs /\ \E t \in TradeFeedTasks :
        \E msg \in HubTrades(t) : TradeMessage(t, msg)

NextTrade ==
    \/ TradeFeedMessage
    \/ \E t \in TradeFeedTasks : PublishSend(t)
    \/ \E t \in TradeFeedTasks : PublishEnd(t)
    \/ \E t \in TradeFeedTasks : \E opened \in BOOLEAN : Connect(t, opened)
    \/ \E t \in TradeFeedTasks : Wake(t)
    \/ \E c \in Clients : Register(c)

SpecTrade == Init /\ [][NextTrade]_vars

\* -------------------------------------------------------------------- claims
Registered == Range(connected_clients)

\* The removal loop of t's publish would raise ValueError now.
Raises(t) == RemoveDisconnected(connected_clients, task[t].disconnected).raised

Failed(t) == Range(task[t].disconnected)

Min(a, b) == IF a < b THEN a ELSE b

\* C1 (fan-out isolation): when a publish in which some sends failed ends, every
\* other subscriber that was registered at the call and still is has been
\* delivered the event, and every subscriber whose send failed is out of the
\* registry.
C1_FanOutIsolation ==
    [][\A t \in Tasks :
          (PublishEnd(t) /\ task[t].disconnected # <<>>) =>
             /\ \A c \in task[t].atStart \ Failed(t) :
                   c \in Range(connected_clients') => c \in task[t].got
             /\ \A c \in Failed(t) : c \notin Range(connected_clients')]_vars

\* C2 (no raise past the hub): the removal loop that ends a publish never
\* raises, so broadcast_to_clients returns normally to the consumer.
C2_PublishNeverRaises ==
    [][\A t \in Tasks : PublishEnd(t) => ~Raises(t)]_vars

\* C3 (safe iteration): when a publish ends, every subscriber that was
\* registered at the call, is still registered and has a working transport has
\* been delivered the event.
C3_NoLiveSubscriberSkipped ==
    [][\A t \in Tasks :
          PublishEnd(t) =>
             \A c \in task[t].atStart :
                (c \in Range(connected_clients') /\ transport[c] = "ok")
                    => c \in task[t].got]_vars

InitialEvents(c) == {k \in DOMAIN delivered[c] : delivered[c][k].type = "initial_data"}

\* C4 (snapshot on join): a subscriber is sent one initial_data event, exactly
\* one once its session is open, carrying the four containers as they are at
\* the registration, and no update event that was published before it
\* registered.
C4_SnapshotOnJoin ==
    /\ [](\A c \in Clients :
             /\ Cardinality(InitialEvents(c)) <= 1
             /\ session[c] = "open" => Cardinality(InitialEvents(c)) = 1
             /\ \A k \in DOMAIN delivered[c] :
                   delivered[c][k].type # "initial_data"
                       => delivered[c][k].seq > regAt[c])
    /\ [][\A c \in Clients :
             (Register(c) /\ transport[c] = "ok") =>
                LET e == delivered'[c][Len(delivered'[c])]
                IN  /\ e.type = "initial_data"
                    /\ e.funding_data = funding_data
                    /\ e.liquidations = recent_liquidations
                    /\ e.trades = recent_trades
                    /\ e.whale_alerts = whale_alerts]_vars

\* C5 (idempotent unregister): a session that unregisters a handle which is
\* already absent from the registry ends without an error and leaves the
\* registry as it is.
C5_IdempotentUnregister ==
    [][\A c \in Clients :
          (Disconnect(c) /\ c \notin Registered) =>
             (session'[c] = "closed" /\ connected_clients' = connected_clients)]_vars

\* C6 (bounded buffers): under any interleaving of the consumers that write to
\* them, the liquidation, trade and whale buffers hold the last 25, 30 and 15
\* kept entries of their kind and no more, newest first: with n entries
\* inserted so far, position k holds the (n - k + 1)-th insertion, so that an
\* insertion into a full buffer has evicted exactly the oldest entry.  A
\* liquidation is told by its time (one consumer writes that buffer), a trade
\* or whale entry by its price, whichever trade consumer inserted it.
C6_BoundedBuffers ==
    /\ Len(recent_liquidations) = Min(nmut["liquidation_update"], 25)
    /\ Len(recent_trades) = Min(nmut["trade_update"], 30)
    /\ Len(whale_alerts) = Min(nmut["whale_alert_update"], 15)
    /\ \A k \in DOMAIN recent_liquidations :
          recent_liquidations[k].time = TimeOfDay(1000 * (nmut["liquidation_update"] - k + 1))
    /\ \A k \in DOMAIN recent_trades :
          recent_trades[k].price = 50000 + (nmut["trade_update"] - k + 1)
    /\ \A k \in DOMAIN whale_alerts :
          whale_alerts[k].price = 50000 + (nmut["whale_alert_update"] - k + 1)

\* Every buffer is full and has evicted entries, and the trade and whale
\* buffers hold entries of both trade consumers, the second consumer's entry
\* neither the newest nor the oldest.
C6_Witness ==
    /\ Len(recent_liquidations) = 25 /\ nmut["liquidation_update"] > 26
    /\ Len(recent_trades) = 30 /\ nmut["trade_update"] > 31
    /\ Len(whale_alerts) = 15 /\ nmut["whale_alert_update"] > 16
    /\ \E k \in 2..14 :
          /\ whale_alerts[k].symbol = trade_symbol(ethusdt)
          /\ whale_alerts[1].symbol = trade_symbol(btcusdt)
          /\ whale_alerts[15].symbol = trade_symbol(btcusdt)
    /\ \E k \in 2..29 : recent_trades[k].symbol = trade_symbol(ethusdt)

Inserted(buf, bufnext) == Len(bufnext) = Len(buf) + 1 /\ Tail(bufnext) = buf

\* C7 (inclusive thresholds): a trade message is inserted into the trade buffer
\* iff price * quantity >= 15,000 and into the whale buffer iff it is
\* >= 100,000, a liquidation message is inserted iff filled quantity * price
\* >= 5,000, and a message below its threshold changes no container and
\* publishes no event.
C7_ThresholdsInclusive ==
    [][/\ \A t \in Tasks : \A msg \in FeedTrades(t) :
             TradeMessage(t, msg) =>
                /\ (msg.p * msg.q >= 15000) <=>
                       (Inserted(recent_trades, recent_trades')
                           /\ Head(recent_trades').price = msg.p)
                /\ (msg.p * msg.q >= 100000) <=>
                       (Inserted(whale_alerts, whale_alerts')
                           /\ Head(whale_alerts').usd_value = msg.p * msg.q)
                /\ (msg.p * msg.q < 15000) =>
                       UNCHANGED <<funding_data, recent_liquidations, recent_trades,
                                   whale_alerts, npub, emitted, delivered>>
       /\ \A t \in Tasks : \A msg \in FeedLiquidations(t) :
             LiquidationMessage(t, msg) =>
                /\ (msg.z * msg.p >= 5000) <=>
                       Inserted(recent_liquidations, recent_liquidations')
                /\ (msg.z * msg.p < 5000) =>
                       UNCHANGED <<funding_data, recent_liquidations, recent_trades,
                                   whale_alerts, npub, emitted, delivered>>]_vars

\* A trade of exactly 15,000 was kept and the other message, below its
\* threshold, was dropped.
C7_Witness ==
    /\ Total(nmsg, Tasks) = 2
    /\ Len(recent_trades) = 1
    /\ recent_trades[1].price = 15000
    /\ recent_liquidations = <<>>
    /\ \A s \in Symbols : funding_data[s] = None

\* C8 (severity classes): the snapshot stored for a symbol has yearly_rate =
\* funding_rate * 3 * 365 and the class of that rate: extreme above 50, high
\* above 30 up to 50, positive above 5 up to 30, negative below -10, normal
\* from -10 up to 5.
C8_SeverityClasses ==
    \A s \in Symbols :
       funding_data[s] # None =>
          LET f == funding_data[s]
              y == f.funding_rate * 3 * 365
          IN  /\ f.yearly_rate = y
              /\ f.style_class = "funding-extreme" <=> y > 50 * Scale
              /\ f.style_class = "funding-high" <=> (y > 30 * Scale /\ y <= 50 * Scale)
              /\ f.style_class = "funding-positive" <=> (y > 5 * Scale /\ y <= 30 * Scale)
              /\ f.style_class = "funding-negative" <=> y < (-10) * Scale
              /\ f.style_class = "funding-normal" <=>
                    (y >= (-10) * Scale /\ y <= 5 * Scale)

\* One symbol holds a rate of exactly 50 and the other a rate of exactly -10.
C8_Witness ==
    /\ funding_data[btcusdt] # None
    /\ funding_data[btcusdt].yearly_rate = 50 * Scale
    /\ funding_data[btcusdt].style_class = "funding-high"
    /\ funding_data[ethusdt] # None
    /\ funding_data[ethusdt].yearly_rate = (-10) * Scale
    /\ funding_data[ethusdt].style_class = "funding-normal"

TradeTasks == {Task("trade", s) : s \in Symbols}

\* C9 (whale trade end to end): a trade message of 100,000 or more goes to the
\* head of the trade and the whale buffer with its tier (mega from 1,000,000,
\* huge from 500,000, else big) and its direction (BUY iff isBuyerMaker is
\* false), and the consumer emits a trade_update for every whale_alert_update:
\* outside a whale publish it has emitted as many of the first as of the second.
C9_WhaleEndToEnd ==
    /\ [](\A t \in TradeTasks :
             ~task[t].whale =>
                npub[t]["trade_update"] >= npub[t]["whale_alert_update"])
    /\ [][\A t \in TradeTasks : \A msg \in HubTrades(t) \cup FeedTrades(t) :
             (TradeMessage(t, msg) /\ msg.p * msg.q >= 100000) =>
                /\ Inserted(recent_trades, recent_trades')
                /\ Inserted(whale_alerts, whale_alerts')
                /\ Head(recent_trades').price = msg.p
                /\ Head(recent_trades').type = (IF msg.m THEN "SELL" ELSE "BUY")
                /\ Head(whale_alerts').type = Head(recent_trades').type
                /\ Head(whale_alerts').whale_class =
                      (IF msg.p * msg.q >= 1000000 THEN "whale-mega"
                       ELSE IF msg.p * msg.q >= 500000 THEN "whale-huge"
                       ELSE "whale-big")]_vars

RECURSIVE PublishedOfKind(_, _)
PublishedOfKind(k, S) ==
    IF S = {} THEN 0
    ELSE LET t == CHOOSE x \in S : TRUE IN npub[t][k] + PublishedOfKind(k, S \ {t})

\* The trade_update each consumer inside a whale publish is still to emit.
Owed(k) ==
    IF k = "trade_update" THEN Cardinality({t \in Tasks : task[t].whale}) ELSE 0

\* The container of a kind of event, after the step.
ContainerAfter(k) ==
    CASE k = "funding_update" -> FundingPayload(funding_data')
      [] k = "liquidation_update" -> recent_liquidations'
      [] k = "trade_update" -> recent_trades'
      [] k = "whale_alert_update" -> whale_alerts'

\* C10 (one event per mutation): for every kind, the events published are as
\* many as the mutations of its container, but for the trade_update a consumer
\* still inside its whale publish is about to emit; and an event carries the
\* full contents of its container at the time it is emitted.
C10_OneEventPerMutation ==
    /\ [](\A k \in Kinds : PublishedOfKind(k, Tasks) + Owed(k) = nmut[k])
    /\ [][npub' # npub =>
             \A j \in DOMAIN emitted' :
                emitted'[j].data = ContainerAfter(emitted'[j].type)]_vars

\* C11: in every consumer a message that fails to parse, whatever json.loads
\* raises on it, is discarded: the consumer keeps its connection (it is
\* receiving again), no container is mutated and no event is emitted.
C11_ParseFailureDiscarded ==
    [][\A t \in Tasks : \A err \in LoadsErrors : MalformedMessage(t, err) =>
          /\ task'[t].pc = "recv"
          /\ UNCHANGED <<funding_data, recent_liquidations, recent_trades,
                         whale_alerts, npub>>]_vars

\* C12: a processing error other than a parse failure closes the connection
\* and the consumer waits the backoff before its next attempt to open one.
C12_ErrorBacksOff ==
    [][\A t \in Tasks : BadMessage(t) => task'[t].pc = "sleep"]_vars

\* A step of consumer t that fails: a failed open, a failed receive, a message
\* whose processing raises, a parse failure that the consumer does not pass
\* over, or a publish that raises.
FailureStep(t) ==
    \/ Connect(t, FALSE)
    \/ RecvError(t)
    \/ BadMessage(t)
    \/ \E err \in LoadsErrors : ~Continues(t, err) /\ MalformedMessage(t, err)
    \/ PublishEnd(t) /\ Raises(t)

\* C13: a consumer has no terminal state: it is always receiving, publishing,
\* about to open its connection or sleeping before that; every failure leaves
\* it about to open or sleeping, and a sleeping consumer comes to open again.
C13_NoTerminalState ==
    /\ [](\A t \in Tasks : task[t].pc \in {"recv", "send", "connect", "sleep"})
    /\ [][\A t \in Tasks : FailureStep(t) => task'[t].pc \in {"connect", "sleep"}]_vars
    /\ \A t \in LiveTasks : (task[t].pc = "sleep") ~> (task[t].pc = "connect")

\* A consumer that handled a message, lost its connection and failed to reopen.
C13_Witness ==
    \E t \in LiveTasks : task[t].pc = "sleep" /\ nmsg[t] > 0

\* C14: the registry holds no handle whose connection is known closed: a
\* handle whose session has ended (its peer disconnected, or its snapshot send
\* failed) is not registered.
C14_NoKnownClosedHandle ==
    \A c \in Clients : session[c] \in {"closed", "crashed"} => c \notin Registered

\* C15: producers are not blocked by slow or dead subscribers: no consumer
\* is held at a send that does not complete, so it goes on to its next
\* message and to the subscribers that follow in the registry.
C15_ProducersNotBlocked ==
    \A t \in Tasks : task[t].pc # "blocked"

\* C16: a publish serializes its event once: every subscriber that is
\* delivered the event of one call of broadcast_to_clients (one seq) receives
\* the identical payload.
C16_SerializeOnce ==
    \A c, d \in Clients :
       \A i \in DOMAIN delivered[c], j \in DOMAIN delivered[d] :
          (/\ delivered[c][i].type # "initial_data"
           /\ delivered[d][j].type # "initial_data"
           /\ delivered[c][i].seq = delivered[d][j].seq)
             => delivered[c][i].data = delivered[d][j].data

\* C17: per-consumer ordering: a consumer emits an event for a new message
\* only when it is receiving, that is after the publish for its previous
\* message has left its send loop; the only event emitted by a consumer that
\* is not receiving is the trade_update that follows the finished whale
\* publish of the same message.
C17_PerConsumerOrder ==
    [][\A t \in Tasks :
          npub'[t] # npub[t] =>
             \/ /\ task[t].pc = "recv"
                /\ nmsg'[t] = nmsg[t] + 1
             \/ /\ task[t].pc = "send"
                /\ task[t].whale
                /\ task[t].i >= Len(connected_clients)
                /\ nmsg'[t] = nmsg[t]]_vars

\* A consumer whose second message is being published.
C17_Witness ==
    \E t \in PairTasks :
       /\ nmsg[t] = 2
       /\ npub[t]["funding_update"] + npub[t]["trade_update"] >= 2
       /\ task[t].pc = "send"

\* C18: session close unregisters: no session ends with an unhandled error,
\* and a session that has ended has left the registry.
C18_SessionCloseUnregisters ==
    \A c \in Clients :
       /\ session[c] # "crashed"
       /\ session[c] = "closed" => c \notin Registered

\* C19: the funding map always has exactly the configured symbols as keys; the
\* entry of s is unset until the funding consumer of s has processed a
\* message; an entry changes only in a step of its own consumer, whatever
\* symbol the message names; a funding message leaves the other entries and
\* the three buffers unchanged.
C19_FundingMapFrame ==
    /\ [](/\ DOMAIN funding_data = Symbols
          /\ \A i \in DOMAIN symbols :
                nmsg[<<"funding", i>>] = 0 => funding_data[symbols[i]] = None)
    /\ [][\A i \in DOMAIN symbols :
             funding_data'[symbols[i]] # funding_data[symbols[i]] =>
                nmsg'[<<"funding", i>>] = nmsg[<<"funding", i>>] + 1]_vars
    /\ [][\A t \in Tasks : nmsg'[t] = nmsg[t] + 1 => \A msg \in RateFunding :
             FundingMessage(t, msg) =>
                /\ funding_data'[symbols[t[2]]] # None
                /\ funding_data'[symbols[t[2]]].symbol_display = funding_symbol_display(msg.s)
                /\ \A s \in Symbols \ {symbols[t[2]]} : funding_data'[s] = funding_data[s]
                /\ UNCHANGED <<recent_liquidations, recent_trades, whale_alerts>>]_vars

\* The btcusdt consumer has written its entry from a message that names ETH,
\* and the ethusdt entry is still unset.
C19_Witness ==
    /\ funding_data[btcusdt] # None
    /\ funding_data[btcusdt].symbol_display = <<"E", "T", "H">>
    /\ funding_data[ethusdt] = None

\* C20: snapshot precedes updates: on every subscriber's connection the first
\* event delivered is its initial_data snapshot and every later one is an
\* update.
C20_SnapshotFirst ==
    \A c \in Clients : \A k \in DOMAIN delivered[c] :
       (delivered[c][k].type = "initial_data") <=> (k = 1)

\* A subscriber that registered while a publish was sending and was delivered
\* that publish's event after its snapshot.
C20_Witness ==
    \E c \in Clients :
       /\ Len(delivered[c]) >= 2
       /\ delivered[c][1].type = "initial_data"
       /\ delivered[c][2].type # "initial_data"
       /\ delivered[c][2].seq <= regAt[c]

\* The current contents of the container an event type reports, as the value
\* its payload carries.
Container(k) ==
    CASE k = "funding_update" -> FundingPayload(funding_data)
      [] k = "liquidation_update" -> recent_liquidations
      [] k = "trade_update" -> recent_trades
      [] k = "whale_alert_update" -> whale_alerts

\* What the snapshot delivered to c showed of that container.
SnapshotView(c, k) ==
    LET e == delivered[c][1]
    IN  CASE k = "funding_update" -> FundingPayload(e.funding_data)
          [] k = "liquidation_update" -> e.liquidations
          [] k = "trade_update" -> e.trades
          [] k = "whale_alert_update" -> e.whale_alerts

Updates(c, k) == {i \in DOMAIN delivered[c] : delivered[c][i].type = k}

LastUpdate(c, k) == CHOOSE i \in Updates(c, k) : \A j \in Updates(c, k) : j <= i

\* No publish is in flight: no consumer is inside broadcast_to_clients.
Quiescent == \A t \in Tasks : task[t].pc \notin {"send", "blocked"}

\* C21: no stale view at quiescence: when no publish is in flight, every
\* subscriber that is registered with a working transport has, for each
\* container that has changed since its snapshot, a last delivered payload of
\* that kind equal to the container's current contents.
C21_NoStaleView ==
    Quiescent =>
       \A c \in Clients :
          (c \in Registered /\ transport[c] = "ok") =>
             \A k \in Kinds :
                Container(k) # SnapshotView(c, k) =>
                   /\ Updates(c, k) # {}
                   /\ delivered[c][LastUpdate(c, k)].data = Container(k)

====
